---- MODULE Spec2Model ----
(***************************************************************************)
(* Model of the semantic video search service: the remote client's        *)
(* flattening of search responses (twelve_labs_client.py), the /search    *)
(* handler's normalisation of hits (api/main.py) and the catalog file     *)
(* (embeddings.json) both read.                                           *)
(***************************************************************************)
EXTENDS Integers, Sequences, FiniteSets, TLC

(* ------------------------------------------------------------------ *)
(* Bounds of the model                                                *)
(* ------------------------------------------------------------------ *)
\* longest remote response (entries) fed to the flattening alone
MaxFlatEntries == 6
\* longest remote response (entries) fed to a /search request
MaxEntries == 2
\* largest max_results a request carries (the smallest is MinResults)
MaxResults == 2
\* most entries read from a response before reading it fails
MaxReadEntries == 1
\* most local video files
MaxFiles == 2
\* most runs of generate.py
MaxRuns == 2
\* most indexing tasks the remote service accepts
MaxTasks == 3
\* most status callbacks of one wait_for_done before it returns or raises
MaxPolls == 1
\* most vectors in the local vector database
MaxVectors == 3
\* largest k of a search of the local vector database
MaxK == 4

(* ------------------------------------------------------------------ *)
(* Python values: an attribute or dict value is absent, None, a str   *)
(* or a number (hundredths, so 0.71 is 71)                            *)
(* ------------------------------------------------------------------ *)
Absent == [k |-> "absent", s |-> "", n |-> 0]
None   == [k |-> "none",   s |-> "", n |-> 0]
S(x)   == [k |-> "str",    s |-> x,  n |-> 0]
N(x)   == [k |-> "num",    s |-> "", n |-> x]

\* getattr(obj, name, default) and dict.get(key, default)
Get(v, default) == IF v.k = "absent" THEN default ELSE v

\* str(x) of a float, as Python prints it (x in hundredths)
PyStr(x) ==
    CASE x = 0  -> "0.0"
      [] x = 70 -> "0.7"
      [] x = 71 -> "0.71"
      [] x = 90 -> "0.9"
      [] OTHER  -> "0.?"

(* ------------------------------------------------------------------ *)
(* Remote client: TwelveLabsClient.search_text / search_image         *)
(* ------------------------------------------------------------------ *)
\* the debugging cut-off of search_text: "if item_count >= 5: break"
DebugLimit == 5

\* hasattr(item,'id') and hasattr(item,'clips') and item.clips
IsGrouped(item) == item.has_id /\ item.has_clips /\ Len(item.clips) > 0

\* the dict appended for one clip of a grouped entry; clip.video_id is a
\* plain attribute access
ClipHit(clip) ==
    [video_id      |-> clip.video_id,
     confidence    |-> Get(clip.confidence, N(0)),
     score         |-> Get(clip.score, N(0)),
     start         |-> Get(clip.start, N(0)),
     end           |-> Get(clip.end, N(0)),
     filename      |-> Get(clip.filename, S("unknown")),
     clip_text     |-> Get(clip.transcription, S("")),
     thumbnail_url |-> Get(clip.thumbnail_url, S(""))]

\* variant of ItemHit that reads the confidence from the score attribute
ItemHit_ScoreAsConfidence(item) ==
    [video_id      |-> Get(item.video_id, S("")),
     confidence    |-> Get(item.score, N(0)),
     score         |-> Get(item.score, N(0)),
     start         |-> Get(item.start, N(0)),
     end           |-> Get(item.end, N(0)),
     filename      |-> Get(item.filename, S("unknown")),
     clip_text     |-> Get(item.transcription, S("")),
     thumbnail_url |-> Get(item.thumbnail_url, S(""))]

\* the dict appended for a flat entry
ItemHit(item) ==
    [video_id      |-> Get(item.video_id, S("")),
     confidence    |-> Get(item.confidence, N(0)),
     score         |-> Get(item.score, N(0)),
     start         |-> Get(item.start, N(0)),
     end           |-> Get(item.end, N(0)),
     filename      |-> Get(item.filename, S("unknown")),
     clip_text     |-> Get(item.transcription, S("")),
     thumbnail_url |-> Get(item.thumbnail_url, S(""))]

\* "for clip in item.clips: results.append(...)": the clips appended before
\* the first clip without a video_id attribute (AttributeError), and whether
\* that error was raised
RECURSIVE AppendClips(_, _)
AppendClips(results, clips) ==
    IF clips = <<>> THEN [results |-> results, raised |-> FALSE]
    ELSE IF Head(clips).video_id.k = "absent"
         THEN [results |-> results, raised |-> TRUE]
         ELSE AppendClips(Append(results, ClipHit(Head(clips))), Tail(clips))

\* the loop "for item in search_results" from entry number item_count + 1
\* on; limit is the item count at which the loop breaks (0: never).
\* read_fails: the iterator raises once the entries it yields are exhausted.
\* Returns the hits appended and whether an exception ended the loop.
RECURSIVE FlattenLoop(_, _, _, _, _)
FlattenLoop(entries, item_count, results, limit, read_fails) ==
    IF item_count >= Len(entries)
    THEN [results |-> results, raised |-> read_fails]
    ELSE LET item == entries[item_count + 1]
             n    == item_count + 1
             r    == IF IsGrouped(item)
                     THEN AppendClips(results, item.clips)
                     ELSE [results |-> Append(results, ItemHit(item)),
                           raised  |-> FALSE]
         IN  IF r.raised THEN r
             ELSE IF limit > 0 /\ n >= limit
                  THEN [results |-> r.results, raised |-> FALSE]
                  ELSE FlattenLoop(entries, n, r.results, limit, read_fails)

\* what the method returns once the query call has answered: the inner
\* "except Exception" only logs, so the hits gathered so far are returned as
\* a success whether or not the loop raised
FlattenResult(loop) ==
    [success |-> TRUE, data |-> loop.results, error |-> ""]

\* a remote response: the query call raises (query_fails, with error), or it
\* returns an iterator over entries that may raise after the last of them
SearchText(resp) ==
    IF resp.query_fails
    THEN [success |-> FALSE, data |-> <<>>, error |-> resp.error]
    ELSE FlattenResult(FlattenLoop(resp.entries, 0, <<>>, DebugLimit, resp.read_fails))

SearchImage(resp) ==
    IF resp.query_fails
    THEN [success |-> FALSE, data |-> <<>>, error |-> resp.error]
    ELSE FlattenResult(FlattenLoop(resp.entries, 0, <<>>, 0, resp.read_fails))

(* ------------------------------------------------------------------ *)
(* Catalog file (embeddings.json)                                     *)
(* ------------------------------------------------------------------ *)
\* the file is missing, partly written (opened 'w', json.dump not finished:
\* json.load raises JSONDecodeError) or holds a catalog
FileMissing == [state |-> "missing", index_id |-> "", videos |-> <<>>]
FilePartial == [state |-> "partial", index_id |-> "", videos |-> <<>>]
\* variant of FileOf that writes the videos only
FileOf_VideosOnly(cat) == [state |-> "ok", index_id |-> "", videos |-> cat.videos]
FileOf(cat) == [state |-> "ok", index_id |-> cat.index_id, videos |-> cat.videos]

Video(vid, name) ==
    [video_id |-> vid, task_id |-> "t-" \o vid, filename |-> name,
     filepath |-> "data/videos/" \o name, status |-> "ready"]

\* the catalogs generate_embeddings writes for the local files a.mp4, b.mp4
Catalogs ==
    { [index_id |-> "idx1", videos |-> <<Video("v1", "a.mp4")>>],
      [index_id |-> "idx1", videos |-> <<Video("v1", "a.mp4"), Video("v2", "b.mp4")>>] }

(* ------------------------------------------------------------------ *)
(* /search handler: models and per-hit normalisation                  *)
(* ------------------------------------------------------------------ *)
\* data_items[:max_results]
PySlice(items, m) ==
    LET n == IF m >= 0
             THEN (IF m < Len(items) THEN m ELSE Len(items))
             ELSE (IF Len(items) + m > 0 THEN Len(items) + m ELSE 0)
    IN  SubSeq(items, 1, n)

\* pydantic validation of a "str" field: a str passes, None is rejected, a
\* number is turned into its str() by pydantic 1 (lax) and rejected by
\* pydantic 2
StrField(v, lax) ==
    CASE v.k = "str" -> [ok |-> TRUE, v |-> v]
      [] v.k = "num" -> IF lax THEN [ok |-> TRUE, v |-> S(PyStr(v.n))]
                               ELSE [ok |-> FALSE, v |-> v]
      [] OTHER       -> [ok |-> FALSE, v |-> v]

\* an Optional[str] field: None passes as None
OptStrField(v, lax) ==
    IF v.k = "none" THEN [ok |-> TRUE, v |-> v] ELSE StrField(v, lax)

\* a float field: a number passes; None and the (non-numeric) strings of
\* this model are rejected
FloatField(v) ==
    IF v.k = "num" THEN [ok |-> TRUE, v |-> v] ELSE [ok |-> FALSE, v |-> v]

\* SearchResult(...): the validated model, or a ValidationError (ok FALSE)
SearchResult(video_id, filename, confidence, score, start, end, clip_text, thumbnail_url, video_filepath, lax) ==
    LET f1 == StrField(video_id, lax)
        f2 == StrField(filename, lax)
        f3 == StrField(confidence, lax)
        f4 == FloatField(score)
        f5 == FloatField(start)
        f6 == FloatField(end)
        f7 == StrField(clip_text, lax)
        f8 == OptStrField(thumbnail_url, lax)
    IN  [ok |-> f1.ok /\ f2.ok /\ f3.ok /\ f4.ok /\ f5.ok /\ f6.ok /\ f7.ok /\ f8.ok,
         video_id       |-> f1.v,
         filename       |-> f2.v,
         confidence     |-> f3.v,
         score          |-> f4.v,
         start          |-> f5.v,
         end            |-> f6.v,
         clip_text      |-> f7.v,
         thumbnail_url  |-> f8.v,
         video_filepath |-> video_filepath]

\* "for video in embeddings_data.get('videos', [])": position of the first
\* record whose video_id equals the hit's, 0 when none
RECURSIVE FindVideo(_, _, _)
FindVideo(videos, video_id, j) ==
    IF j > Len(videos) THEN 0
    ELSE IF video_id.k = "str" /\ videos[j].video_id = video_id.s THEN j
    ELSE FindVideo(videos, video_id, j + 1)

\* variant of Correlate that forgets the remote filename on a miss
Correlate_DropsFilename(item, filename, file) ==
    IF file.state # "ok"
    THEN [filename |-> S("unknown"), video_filepath |-> S("unknown")]
    ELSE LET j == FindVideo(file.videos, Get(item.video_id, S("")), 1)
         IN  IF j = 0
             THEN [filename |-> S("unknown"), video_filepath |-> S("unknown")]
             ELSE [filename       |-> S(file.videos[j].filename),
                   video_filepath |-> S(file.videos[j].filepath)]

\* variant of Correlate that keeps the filename the remote supplied
Correlate_PrefersRemote(item, filename, file) ==
    IF file.state # "ok"
    THEN [filename |-> filename, video_filepath |-> S("unknown")]
    ELSE LET j == FindVideo(file.videos, Get(item.video_id, S("")), 1)
         IN  IF j = 0
             THEN [filename |-> filename, video_filepath |-> S("unknown")]
             ELSE [filename       |-> IF filename = S("unknown")
                                      THEN S(file.videos[j].filename)
                                      ELSE filename,
                   video_filepath |-> S(file.videos[j].filepath)]

\* the correlation of one hit with the catalog file as it is when the hit is
\* processed: open/json.load failures are caught and logged
Correlate(item, filename, file) ==
    IF file.state # "ok"
    THEN [filename |-> filename, video_filepath |-> S("unknown")]
    ELSE LET j == FindVideo(file.videos, Get(item.video_id, S("")), 1)
         IN  IF j = 0
             THEN [filename |-> filename, video_filepath |-> S("unknown")]
             ELSE [filename       |-> S(file.videos[j].filename),
                   video_filepath |-> S(file.videos[j].filepath)]

\* variant of NormalizeItem that leaves a None clip_text as it is
NormalizeItem_KeepsNullText(item, file, lax) ==
    LET filename  == Get(item.filename, S("unknown"))
        clip_text == Get(item.clip_text, S(""))
        thumbnail == Get(item.thumbnail_url, None)
        c         == Correlate(item, filename, file)
    IN  SearchResult(Get(item.video_id, S("")), c.filename,
                     Get(item.confidence, S("unknown")),
                     Get(item.score, N(0)), Get(item.start, N(0)),
                     Get(item.end, N(0)), clip_text, thumbnail,
                     c.video_filepath, lax)

\* the body of the loop over data_items[:max_results] for one item
NormalizeItem(item, file, lax) ==
    LET filename  == Get(item.filename, S("unknown"))
        text0     == Get(item.clip_text, S(""))
        clip_text == IF text0.k = "none" THEN S("") ELSE text0
        thumbnail == Get(item.thumbnail_url, None)
        c         == Correlate(item, filename, file)
    IN  SearchResult(Get(item.video_id, S("")), c.filename,
                     Get(item.confidence, S("unknown")),
                     Get(item.score, N(0)), Get(item.start, N(0)),
                     Get(item.end, N(0)), clip_text, thumbnail,
                     c.video_filepath, lax)

(* ------------------------------------------------------------------ *)
(* Inputs: remote responses                                           *)
(* ------------------------------------------------------------------ *)
\* the attributes of a clip or a flat entry
Attrs(video_id, confidence, filename, transcription, thumbnail_url) ==
    [video_id |-> video_id, confidence |-> confidence, score |-> N(90),
     start |-> N(0), end |-> N(30), filename |-> filename,
     transcription |-> transcription, thumbnail_url |-> thumbnail_url]

Flat(a) ==
    [has_id |-> TRUE, has_clips |-> TRUE, clips |-> <<>>,
     video_id |-> a.video_id, confidence |-> a.confidence, score |-> a.score,
     start |-> a.start, end |-> a.end, filename |-> a.filename,
     transcription |-> a.transcription, thumbnail_url |-> a.thumbnail_url]

\* a grouped entry carries the video's id and its clips, no hit fields
Grouped(clips) ==
    [has_id |-> TRUE, has_clips |-> TRUE, clips |-> clips,
     video_id |-> Absent, confidence |-> Absent, score |-> Absent,
     start |-> Absent, end |-> Absent, filename |-> Absent,
     transcription |-> Absent, thumbnail_url |-> Absent]

HitA == Attrs(S("v1"), S("high"), Absent, S("hello"), S("http://t/1"))
HitB == Attrs(S("v2"), S("medium"), S("remote.mp4"), None, None)
HitC == Attrs(S("v9"), S("low"), S("remote.mp4"), Absent, Absent)
\* numeric confidences at the 0.7 threshold
Hit70 == Attrs(S("v1"), N(70), Absent, S("hello"), None)
Hit71 == Attrs(S("v2"), N(71), Absent, S("hello"), None)
\* confidence neither a recognised label nor a number
HitOdd == Attrs(S("v9"), S("very_high"), Absent, S("hello"), S(""))
HitNoConf == Attrs(S("v9"), Absent, Absent, S("hello"), None)
\* malformed hits: a null video id, no video_id attribute
HitNullId == Attrs(None, S("high"), Absent, S("hello"), None)
HitNoId == Attrs(Absent, S("medium"), Absent, S("hello"), None)

\* entries of the responses a /search request meets
SearchEntries ==
    { Flat(HitA), Flat(Hit70), Flat(Hit71), Flat(HitOdd), Flat(HitNoConf), Flat(HitNullId),
      Grouped(<<HitB, HitA>>), Grouped(<<HitC, HitNoId, HitA>>) }

\* entries of the responses fed to the flattening alone
FlatEntries ==
    { Flat(HitA), Flat(HitB), Grouped(<<HitA, HitC>>), Grouped(<<HitB>>) }

RemoteErrors == {"connection refused", "401 invalid api key"}

SeqsUpTo(set, n) == UNION { [1..k -> set] : k \in 0..n }

\* the responses of the remote service to one query: the query call fails,
\* the response is read to its end, or reading it fails after some entries
Responses ==
    { [query_fails |-> TRUE, error |-> e, entries |-> <<>>, read_fails |-> FALSE] :
          e \in RemoteErrors }
    \cup
    { [query_fails |-> FALSE, error |-> "", entries |-> es, read_fails |-> FALSE] :
          es \in SeqsUpTo(SearchEntries, MaxEntries) }
    \cup
    { [query_fails |-> FALSE, error |-> "", entries |-> es, read_fails |-> TRUE] :
          es \in SeqsUpTo(SearchEntries, MaxReadEntries) }

NoResponse == [query_fails |-> FALSE, error |-> "", entries |-> <<>>, read_fails |-> FALSE]

\* max_results is an unvalidated int
MinResults == 0 - 1
MaxResultsSet == MinResults .. MaxResults

(* ------------------------------------------------------------------ *)
(* State                                                              *)
(* ------------------------------------------------------------------ *)
VARIABLES
    embeddings_file,   \* the catalog file EMBEDDINGS_FILE
    lax,               \* the installed pydantic turns numbers into str
    index_id,          \* api/main.py global index_id
    pc,                \* the API process: boot, crashed, idle, normalizing, responded
    request,           \* the request being served and the remote response it met
    remote_called,     \* client.search_text was called for this request
    data_items,        \* search_data.get("data", [])
    i,                 \* hits of data_items[:max_results] already processed
    search_results,    \* search_results of the handler
    response,          \* the HTTP response of the request
    entries,           \* flattening alone: the remote response entries
    flat_pc,           \* flattening alone: building, text, image
    flat_out,          \* flattening alone: what the client method returned
    gen_pc,            \* the indexer process: position in generate.py main()
    runs,              \* runs of generate.py started so far
    video_files,       \* get_video_files(): names of the local video files
    indexes,           \* the indexes that exist on the remote service
    embeddings_data,   \* EmbeddingGenerator.embeddings_data
    video_file,        \* position of the loop over video_files
    video_status,      \* per file of the run: how far upload_video has brought it
    task_id,           \* task_id of upload_video
    n_tasks,           \* indexing tasks the remote service has created
    polls,             \* status callbacks of the running wait_for_done
    wait_result,       \* wait_result of upload_video
    vector_db          \* the VectorDatabase object and the search run on it

api_vars == <<index_id, pc, request, remote_called, data_items, i,
              search_results, response>>
flat_vars == <<entries, flat_pc, flat_out>>
gen_vars == <<gen_pc, runs, video_files, indexes, embeddings_data, video_file,
              video_status, task_id, n_tasks, polls, wait_result>>
vars == <<embeddings_file, lax, index_id, pc, request, remote_called,
          data_items, i, search_results, response, entries, flat_pc, flat_out,
          gen_pc, runs, video_files, indexes, embeddings_data, video_file,
          video_status, task_id, n_tasks, polls, wait_result, vector_db>>

NoRequest == [max_results |-> 0, resp |-> NoResponse]
NoHttp == [status |-> 0, detail |-> <<>>, results |-> <<>>, total_results |-> 0]
NoOut == [success |-> FALSE, data |-> <<>>, error |-> ""]

\* raise HTTPException(status_code, detail)
HttpError(status, detail) ==
    [status |-> status, detail |-> detail, results |-> <<>>, total_results |-> 0]

\* variant of SearchResponse that reports the count requested
SearchResponse_CountsRequested(results) ==
    [status |-> 200, detail |-> <<>>, results |-> results,
     total_results |-> request.max_results]

\* return SearchResponse(query, results, total_results=len(results))
SearchResponse(results) ==
    [status |-> 200, detail |-> <<>>, results |-> results,
     total_results |-> Len(results)]

\* str(e) of an HTTPException: "<status>: <detail>" where the installed
\* starlette defines __str__, the empty string where it does not
ExcStr(shown, status, detail) ==
    IF shown THEN <<status>> \o detail ELSE <<>>

\* variant of Falsy that tests for the empty string only
Falsy_EmptyOnly(v) == v.k = "str" /\ v.s = ""

\* "if not index_id"
Falsy(v) == v.k = "none" \/ (v.k = "str" /\ v.s = "")

(* ------------------------------------------------------------------ *)
(* Actions of the API process                                         *)
(* ------------------------------------------------------------------ *)
\* lifespan -> load_index_id(): FileNotFoundError is caught, a JSON error
\* is not and ends the start-up
Startup ==
    /\ pc = "boot"
    /\ CASE embeddings_file.state = "missing" ->
              /\ pc' = "idle"
              /\ UNCHANGED index_id
         [] embeddings_file.state = "partial" ->
              /\ pc' = "crashed"
              /\ UNCHANGED index_id
         [] OTHER ->
              /\ pc' = "idle"
              /\ index_id' = S(embeddings_file.index_id)
    /\ UNCHANGED <<embeddings_file, lax, request, remote_called, data_items, i,
                   search_results, response, flat_vars, gen_vars, vector_db>>

\* POST /search while no index id is loaded: HTTPException 400, raised
\* outside the handler's try
SearchNoIndex(m) ==
    /\ pc = "idle"
    /\ Falsy(index_id)
    /\ request' = [max_results |-> m, resp |-> NoResponse]
    /\ remote_called' = FALSE
    /\ response' = HttpError(400, <<"No index found. Run embedding generation first.">>)
    /\ pc' = "responded"
    /\ UNCHANGED <<embeddings_file, lax, index_id, data_items, i, search_results,
                   flat_vars, gen_vars, vector_db>>

\* POST /search with an index id: the remote call; a failed result raises
\* HTTPException 500 inside the try, which the outer "except Exception"
\* wraps into another 500
SearchRemote(m, resp) ==
    /\ pc = "idle"
    /\ ~Falsy(index_id)
    /\ request' = [max_results |-> m, resp |-> resp]
    /\ remote_called' = TRUE
    /\ LET result == SearchText(resp)
       IN  IF ~result.success
           THEN /\ \E shown \in BOOLEAN :
                     response' = HttpError(500,
                         <<"Unexpected search error: ">> \o
                         ExcStr(shown, "500", <<"Search failed: ", result.error>>))
                /\ pc' = "responded"
                /\ UNCHANGED <<data_items, i, search_results>>
           ELSE /\ data_items' = result.data
                /\ i' = 0
                /\ search_results' = <<>>
                /\ pc' = "normalizing"
                /\ UNCHANGED response
    /\ UNCHANGED <<embeddings_file, lax, index_id, flat_vars, gen_vars, vector_db>>

\* variant of AppendResult that inserts at the front
AppendResult_Front(results, r) == <<r>> \o results

\* search_results.append(search_result)
AppendResult(results, r) == Append(results, r)

\* one turn of "for i, item in enumerate(data_items[:query.max_results])";
\* the try encloses the whole loop, so an exception ends the loop and the
\* handler returns what it had
NormalizeNext ==
    /\ pc = "normalizing"
    /\ LET items == PySlice(data_items, request.max_results)
       IN  /\ i < Len(items)
           /\ LET r == NormalizeItem(items[i + 1], embeddings_file, lax)
              IN  IF r.ok
                  THEN /\ search_results' = AppendResult(search_results, r)
                       /\ i' = i + 1
                       /\ UNCHANGED <<pc, response>>
                  ELSE /\ response' = SearchResponse(search_results)
                       /\ pc' = "responded"
                       /\ UNCHANGED <<i, search_results>>
    /\ UNCHANGED <<embeddings_file, lax, index_id, request, remote_called,
                   data_items, flat_vars, gen_vars, vector_db>>

\* the loop is exhausted: return SearchResponse(...)
Respond ==
    /\ pc = "normalizing"
    /\ i >= Len(PySlice(data_items, request.max_results))
    /\ response' = SearchResponse(search_results)
    /\ pc' = "responded"
    /\ UNCHANGED <<embeddings_file, lax, index_id, request, remote_called,
                   data_items, i, search_results, flat_vars, gen_vars, vector_db>>

\* the response is sent; the process waits for the next request
NextRequest ==
    /\ pc = "responded"
    /\ pc' = "idle"
    /\ request' = NoRequest
    /\ remote_called' = FALSE
    /\ data_items' = <<>>
    /\ i' = 0
    /\ search_results' = <<>>
    /\ response' = NoHttp
    /\ UNCHANGED <<embeddings_file, lax, index_id, flat_vars, gen_vars, vector_db>>

(* ------------------------------------------------------------------ *)
(* The indexer process saving the catalog (generate.py)               *)
(* ------------------------------------------------------------------ *)
\* save_embeddings: open(EMBEDDINGS_FILE, 'w') truncates the file
SaveOpen ==
    /\ embeddings_file.state # "partial"
    /\ embeddings_file' = FilePartial
    /\ UNCHANGED <<lax, api_vars, flat_vars, gen_vars, vector_db>>

\* save_embeddings: json.dump has written the catalog and the file is closed
SaveDump(cat) ==
    /\ embeddings_file.state = "partial"
    /\ embeddings_file' = FileOf(cat)
    /\ UNCHANGED <<lax, api_vars, flat_vars, gen_vars, vector_db>>

\* VectorDatabase.__init__: no index, no metadata; no search made. sims
\* stands for the index: the inner product (hundredths) of each stored
\* vector with the query
NoVectorDb ==
    [loaded |-> FALSE, sims |-> <<>>, metadata |-> <<>>, pc |-> "off",
     k |-> 0, results |-> <<>>]

\* EmbeddingGenerator.__init__: embeddings_data (index_id None is "")
NewEmbeddingsData == [index_id |-> "", videos |-> <<>>]

NoWait == [success |-> FALSE, status |-> "", video_id |-> ""]

\* generate.py is not running
GenOff ==
    /\ gen_pc = "off"
    /\ runs = 0
    /\ video_files = <<>>
    /\ indexes = <<>>
    /\ embeddings_data = NewEmbeddingsData
    /\ video_file = 0
    /\ video_status = <<>>
    /\ task_id = ""
    /\ n_tasks = 0
    /\ polls = 0
    /\ wait_result = NoWait

(* ------------------------------------------------------------------ *)
(* Specification of the search service                                *)
(* ------------------------------------------------------------------ *)
Init ==
    /\ embeddings_file \in {FileMissing} \cup {FileOf(c) : c \in Catalogs}
    /\ lax \in BOOLEAN
    /\ index_id = None
    /\ pc = "boot"
    /\ request = NoRequest
    /\ remote_called = FALSE
    /\ data_items = <<>>
    /\ i = 0
    /\ search_results = <<>>
    /\ response = NoHttp
    /\ entries = <<>>
    /\ flat_pc = "off"
    /\ flat_out = NoOut
    /\ GenOff
    /\ vector_db = NoVectorDb

Next ==
    \/ Startup
    \/ \E m \in MaxResultsSet : SearchNoIndex(m)
    \/ \E m \in MaxResultsSet, resp \in Responses : SearchRemote(m, resp)
    \/ NormalizeNext
    \/ Respond
    \/ NextRequest
    \/ SaveOpen
    \/ \E cat \in Catalogs : SaveDump(cat)

Spec == Init /\ [][Next]_vars

(* ------------------------------------------------------------------ *)
(* Specification of the flattening alone                              *)
(* ------------------------------------------------------------------ *)
AddEntry(e) ==
    /\ flat_pc = "building"
    /\ Len(entries) < MaxFlatEntries
    /\ entries' = Append(entries, e)
    /\ UNCHANGED <<embeddings_file, lax, api_vars, gen_vars, vector_db, flat_pc, flat_out>>

FlatResponse(rf) ==
    [query_fails |-> FALSE, error |-> "", entries |-> entries, read_fails |-> rf]

CallSearchText ==
    /\ flat_pc = "building"
    /\ \E rf \in BOOLEAN : flat_out' = SearchText(FlatResponse(rf))
    /\ flat_pc' = "text"
    /\ UNCHANGED <<embeddings_file, lax, api_vars, gen_vars, vector_db, entries>>

CallSearchImage ==
    /\ flat_pc = "building"
    /\ \E rf \in BOOLEAN : flat_out' = SearchImage(FlatResponse(rf))
    /\ flat_pc' = "image"
    /\ UNCHANGED <<embeddings_file, lax, api_vars, gen_vars, vector_db, entries>>

InitFlatten ==
    /\ embeddings_file = FileMissing
    /\ lax = FALSE
    /\ index_id = None
    /\ pc = "off"
    /\ request = NoRequest
    /\ remote_called = FALSE
    /\ data_items = <<>>
    /\ i = 0
    /\ search_results = <<>>
    /\ response = NoHttp
    /\ entries = <<>>
    /\ flat_pc = "building"
    /\ flat_out = NoOut
    /\ GenOff
    /\ vector_db = NoVectorDb

NextFlatten ==
    \/ \E e \in FlatEntries : AddEntry(e)
    \/ CallSearchText
    \/ CallSearchImage

SpecFlatten == InitFlatten /\ [][NextFlatten]_vars

(* ------------------------------------------------------------------ *)
(* The indexer process (generate.py main, EmbeddingGenerator)         *)
(* ------------------------------------------------------------------ *)
IndexName == "semantic_video_search_poc"

\* names of the files of data/videos, sorted
FileNames == <<"a.mp4", "b.mp4", "c.mp4", "d.mp4">>
\* ids the remote service gives the indexes and the videos it creates
IndexIds == <<"idx1", "idx2", "idx3", "idx4", "idx5", "idx6">>
RemoteIds == <<"v1", "v2", "v3", "v4", "v5", "v6", "v7", "v8">>

\* variant of VideoData that leaves the video id out
VideoData_NoVideoId(video_id, tid, name) ==
    [video_id |-> "", task_id |-> tid, filename |-> name,
     filepath |-> "data/videos/" \o name, status |-> "ready"]

\* the video_data record upload_video returns
VideoData(video_id, tid, name) ==
    [video_id |-> video_id, task_id |-> tid, filename |-> name,
     filepath |-> "data/videos/" \o name, status |-> "ready"]

\* position of the first index named IndexName in the listing, 0 if none
RECURSIVE FindIndex(_, _)
FindIndex(list, j) ==
    IF j > Len(list) THEN 0
    ELSE IF list[j].index_name = IndexName THEN j
    ELSE FindIndex(list, j + 1)

\* main(): a new EmbeddingGenerator, load_embeddings() and the answer to
\* "Regenerate embeddings? (y/N)"
MainStart(answer) ==
    /\ gen_pc \in {"start", "exit_kept", "exit_ok", "exit_failed",
                   "cancelled", "crashed"}
    /\ runs < MaxRuns
    /\ runs' = runs + 1
    /\ CASE embeddings_file.state = "missing" ->
              /\ embeddings_data' = NewEmbeddingsData
              /\ gen_pc' = "generate"
         [] embeddings_file.state = "partial" ->
              /\ embeddings_data' = NewEmbeddingsData
              /\ gen_pc' = "crashed"
         [] OTHER ->
              /\ embeddings_data' = [index_id |-> embeddings_file.index_id,
                                     videos   |-> embeddings_file.videos]
              /\ gen_pc' = IF answer = "y" THEN "generate" ELSE "exit_kept"
    /\ video_file' = 0
    /\ video_status' = <<>>
    /\ task_id' = ""
    /\ polls' = 0
    /\ wait_result' = NoWait
    /\ UNCHANGED <<embeddings_file, lax, api_vars, flat_vars, vector_db, video_files,
                   indexes, n_tasks>>

\* generate_embeddings: no video files found
NoVideoFiles ==
    /\ gen_pc = "generate"
    /\ video_files = <<>>
    /\ gen_pc' = "exit_failed"
    /\ UNCHANGED <<embeddings_file, lax, api_vars, flat_vars, vector_db, runs, video_files,
                   indexes, embeddings_data, video_file, video_status, task_id,
                   n_tasks, polls, wait_result>>

\* create_index, first half: test_connection() lists the indexes (ok) or
\* fails, and an index named IndexName in a non-empty listing is reused
ListIndexes(ok) ==
    /\ gen_pc = "generate"
    /\ video_files # <<>>
    /\ video_status' = [j \in 1..Len(video_files) |-> "registered"]
    /\ LET j == IF ok THEN FindIndex(indexes, 1) ELSE 0
       IN  IF j # 0
           THEN /\ embeddings_data' =
                     [embeddings_data EXCEPT !.index_id = indexes[j].id]
                /\ gen_pc' = "upload"
                /\ video_file' = 1
           ELSE /\ gen_pc' = "create"
                /\ UNCHANGED <<embeddings_data, video_file>>
    /\ UNCHANGED <<embeddings_file, lax, api_vars, flat_vars, vector_db, runs, video_files,
                   indexes, task_id, n_tasks, polls, wait_result>>

\* create_index, second half: client.create_index succeeds (the remote
\* creates an index) or fails
CreateIndex(ok) ==
    /\ gen_pc = "create"
    /\ IF ok
       THEN LET id == IndexIds[Len(indexes) + 1]
            IN  /\ indexes' = Append(indexes, [id |-> id, index_name |-> IndexName])
                /\ embeddings_data' = [embeddings_data EXCEPT !.index_id = id]
                /\ gen_pc' = "upload"
                /\ video_file' = 1
       ELSE /\ gen_pc' = "exit_failed"
            /\ UNCHANGED <<indexes, embeddings_data, video_file>>
    /\ UNCHANGED <<embeddings_file, lax, api_vars, flat_vars, vector_db, runs, video_files,
                   video_status, task_id, n_tasks, polls, wait_result>>

\* variant of ForVideoFile that ends the run at the first skipped file
ForVideoFile_StopsAtSkip(video_data) ==
    /\ embeddings_data' =
          [embeddings_data EXCEPT !.videos = embeddings_data.videos \o video_data]
    /\ video_file' = video_file + 1
    /\ gen_pc' = IF video_data = <<>> THEN "exit_failed"
                 ELSE IF video_file = Len(video_files) THEN "save" ELSE "upload"

\* the rest of the loop body once upload_video returned: video_data (<<>>
\* for None) is appended or the file skipped, then the next file or, after
\* the last, save_embeddings
ForVideoFile(video_data) ==
    /\ embeddings_data' =
          [embeddings_data EXCEPT !.videos = embeddings_data.videos \o video_data]
    /\ video_file' = video_file + 1
    /\ gen_pc' = IF video_file = Len(video_files) THEN "save" ELSE "upload"

\* variant of UploadOk that takes the uploaded video for indexed
UploadOk_ReadyAtOnce ==
    /\ gen_pc = "upload"
    /\ n_tasks < MaxTasks
    /\ n_tasks' = n_tasks + 1
    /\ task_id' = "t-" \o RemoteIds[n_tasks + 1]
    /\ video_status' = [video_status EXCEPT ![video_file] = "ready"]
    /\ polls' = 0
    /\ wait_result' = NoWait
    /\ gen_pc' = "wait"
    /\ UNCHANGED <<embeddings_file, lax, api_vars, flat_vars, vector_db, runs, video_files,
                   indexes, embeddings_data, video_file>>

\* upload_video: client.upload_video succeeded, the remote created a task
UploadOk ==
    /\ gen_pc = "upload"
    /\ n_tasks < MaxTasks
    /\ n_tasks' = n_tasks + 1
    /\ task_id' = "t-" \o RemoteIds[n_tasks + 1]
    /\ video_status' = [video_status EXCEPT ![video_file] = "processing"]
    /\ polls' = 0
    /\ wait_result' = NoWait
    /\ gen_pc' = "wait"
    /\ UNCHANGED <<embeddings_file, lax, api_vars, flat_vars, vector_db, runs, video_files,
                   indexes, embeddings_data, video_file>>
\* upload_video: client.upload_video failed, None is returned
UploadFail ==
    /\ gen_pc = "upload"
    /\ video_status' = [video_status EXCEPT ![video_file] = "failed"]
    /\ wait_result' = NoWait
    /\ ForVideoFile(<<>>)
    /\ UNCHANGED <<embeddings_file, lax, api_vars, flat_vars, vector_db, runs, video_files,
                   indexes, task_id, n_tasks, polls>>

\* wait_for_done polled the task, which is not done: the callback prints
\* its status and the loop sleeps
PollPending ==
    /\ gen_pc = "wait"
    /\ polls < MaxPolls
    /\ polls' = polls + 1
    /\ UNCHANGED <<embeddings_file, lax, api_vars, flat_vars, vector_db, gen_pc, runs,
                   video_files, indexes, embeddings_data, video_file,
                   video_status, task_id, n_tasks, wait_result>>

\* wait_for_done returned a task with status "ready": video_data is built
\* from the task's video_id and returned
WaitReady ==
    /\ gen_pc = "wait"
    /\ wait_result' = [success |-> TRUE, status |-> "ready",
                       video_id |-> RemoteIds[n_tasks]]
    /\ video_status' = [video_status EXCEPT ![video_file] = "ready"]
    /\ ForVideoFile(<<VideoData(RemoteIds[n_tasks], task_id,
                                video_files[video_file])>>)
    /\ UNCHANGED <<embeddings_file, lax, api_vars, flat_vars, vector_db, runs, video_files,
                   indexes, task_id, n_tasks, polls>>

\* wait_for_done returned a task whose status is not "ready" (st =
\* "failed") or raised, e.g. on a poll that failed (st = "error"):
\* wait_for_task_completion reports no success and None is returned
WaitNotReady(st) ==
    /\ gen_pc = "wait"
    /\ wait_result' = [success |-> FALSE, status |-> st, video_id |-> ""]
    /\ video_status' = [video_status EXCEPT ![video_file] = "failed"]
    /\ ForVideoFile(<<>>)
    /\ UNCHANGED <<embeddings_file, lax, api_vars, flat_vars, vector_db, runs, video_files,
                   indexes, task_id, n_tasks, polls>>

\* the run is interrupted (KeyboardInterrupt) while wait_for_done polls:
\* no handler catches it and the process ends
CancelWait ==
    /\ gen_pc = "wait"
    /\ gen_pc' = "cancelled"
    /\ UNCHANGED <<embeddings_file, lax, api_vars, flat_vars, vector_db, runs, video_files,
                   indexes, embeddings_data, video_file, video_status, task_id,
                   n_tasks, polls, wait_result>>

\* save_embeddings after the loop: open(EMBEDDINGS_FILE, 'w') truncates
SaveEmbeddingsOpen ==
    /\ gen_pc = "save"
    /\ embeddings_file' = FilePartial
    /\ gen_pc' = "dump"
    /\ UNCHANGED <<lax, api_vars, flat_vars, vector_db, runs, video_files, indexes,
                   embeddings_data, video_file, video_status, task_id, n_tasks,
                   polls, wait_result>>

\* save_embeddings: json.dump wrote embeddings_data and the file is closed;
\* generate_embeddings returns True
SaveEmbeddingsDump ==
    /\ gen_pc = "dump"
    /\ embeddings_file' = FileOf(embeddings_data)
    /\ gen_pc' = "exit_ok"
    /\ UNCHANGED <<lax, api_vars, flat_vars, vector_db, runs, video_files, indexes,
                   embeddings_data, video_file, video_status, task_id, n_tasks,
                   polls, wait_result>>

\* the run is interrupted between the truncation and the end of json.dump
CancelSave ==
    /\ gen_pc = "dump"
    /\ gen_pc' = "cancelled"
    /\ UNCHANGED <<embeddings_file, lax, api_vars, flat_vars, vector_db, runs, video_files,
                   indexes, embeddings_data, video_file, video_status, task_id,
                   n_tasks, polls, wait_result>>

(* ------------------------------------------------------------------ *)
(* Specification of the indexer                                       *)
(* ------------------------------------------------------------------ *)
\* the remote service before the first run: no index, another index, or an
\* index named IndexName
RemoteIndexes ==
    { <<>>,
      <<[id |-> IndexIds[1], index_name |-> "other"]>>,
      <<[id |-> IndexIds[1], index_name |-> IndexName]>> }

InitIndex ==
    /\ embeddings_file = FileMissing
    /\ lax = FALSE
    /\ index_id = None
    /\ pc = "off"
    /\ request = NoRequest
    /\ remote_called = FALSE
    /\ data_items = <<>>
    /\ i = 0
    /\ search_results = <<>>
    /\ response = NoHttp
    /\ entries = <<>>
    /\ flat_pc = "off"
    /\ flat_out = NoOut
    /\ gen_pc = "start"
    /\ runs = 0
    /\ video_files \in {SubSeq(FileNames, 1, n) : n \in 0..MaxFiles}
    /\ indexes \in RemoteIndexes
    /\ embeddings_data = NewEmbeddingsData
    /\ video_file = 0
    /\ video_status = <<>>
    /\ task_id = ""
    /\ n_tasks = 0
    /\ polls = 0
    /\ wait_result = NoWait
    /\ vector_db = NoVectorDb

NextIndex ==
    \/ \E answer \in {"y", "n"} : MainStart(answer)
    \/ NoVideoFiles
    \/ \E ok \in BOOLEAN : ListIndexes(ok)
    \/ \E ok \in BOOLEAN : CreateIndex(ok)
    \/ UploadOk
    \/ UploadFail
    \/ PollPending
    \/ WaitReady
    \/ \E st \in {"failed", "error"} : WaitNotReady(st)
    \/ CancelWait
    \/ SaveEmbeddingsOpen
    \/ SaveEmbeddingsDump
    \/ CancelSave

SpecIndex == InitIndex /\ [][NextIndex]_vars

\* the steps of a run that is not interrupted
RunStep ==
    \/ NoVideoFiles
    \/ \E ok \in BOOLEAN : ListIndexes(ok)
    \/ \E ok \in BOOLEAN : CreateIndex(ok)
    \/ UploadOk
    \/ UploadFail
    \/ PollPending
    \/ WaitReady
    \/ \E st \in {"failed", "error"} : WaitNotReady(st)
    \/ SaveEmbeddingsOpen
    \/ SaveEmbeddingsDump

\* the indexer when no run is interrupted, every remote call returns and
\* every task ends: a run that was started takes each step it can take;
\* whether another run is started is up to the user
NextIndexLive ==
    \/ \E answer \in {"y", "n"} : MainStart(answer)
    \/ RunStep

SpecIndexLive == InitIndex /\ [][NextIndexLive]_vars /\ WF_vars(RunStep)

(* ------------------------------------------------------------------ *)
(* The local vector database (database/vector_db.py)                  *)
(* ------------------------------------------------------------------ *)
\* the score faiss reports in a slot for which the index has no neighbour
\* (its label is -1)
PadScore == 0 - 100000

\* inner products (hundredths) of the stored vectors with the query
ScoreSet == {10, 30, 50, 70, 90}

\* the labels (0-based) of the stored vectors by descending inner product
RECURSIVE Ranked(_, _)
Ranked(sims, taken) ==
    IF Cardinality(taken) = Len(sims) THEN <<>>
    ELSE LET rest == (1..Len(sims)) \ taken
             j    == CHOOSE j \in rest : \A q \in rest : sims[q] <= sims[j]
         IN  <<j - 1>> \o Ranked(sims, taken \cup {j})

\* self.index.search(query_array, k): the k slots of the one query row
IndexSearch(sims, k) ==
    LET r == Ranked(sims, {})
    IN  [s \in 1..k |-> IF s <= Len(r)
                        THEN [score |-> sims[r[s] + 1], idx |-> r[s]]
                        ELSE [score |-> PadScore, idx |-> 0 - 1]]

\* list[idx] of Python: a negative idx counts from the end
PyIndex(list, idx) ==
    IF idx < 0 THEN list[Len(list) + idx + 1] ELSE list[idx + 1]

\* the loop of search over zip(scores[0], indices[0])
RECURSIVE SearchLoop(_, _, _, _)
SearchLoop(slots, metadata, pos, results) ==
    IF pos >= Len(slots) THEN results
    ELSE LET slot == slots[pos + 1]
         IN  SearchLoop(slots, metadata, pos + 1,
                 IF slot.idx < Len(metadata)
                 THEN Append(results, [metadata |-> PyIndex(metadata, slot.idx),
                                       score    |-> slot.score])
                 ELSE results)

\* VectorDatabase.search(query_embedding, k) on a loaded index
VectorSearch(k) ==
    /\ vector_db.pc = "ready"
    /\ vector_db.loaded
    /\ vector_db' = [vector_db EXCEPT
                       !.pc = "done",
                       !.k = k,
                       !.results = SearchLoop(IndexSearch(vector_db.sims, k),
                                              vector_db.metadata, 0, <<>>)]
    /\ UNCHANGED <<embeddings_file, lax, api_vars, flat_vars, gen_vars>>

\* VectorDatabase.search while self.index is None: ValueError
VectorSearchNoIndex(k) ==
    /\ vector_db.pc = "ready"
    /\ ~vector_db.loaded
    /\ vector_db' = [vector_db EXCEPT !.pc = "raised", !.k = k]
    /\ UNCHANGED <<embeddings_file, lax, api_vars, flat_vars, gen_vars>>

\* the vector databases create_index builds: one metadata entry per vector,
\* at least one vector (it fails on an empty list of embeddings)
VectorDbs ==
    { [loaded |-> TRUE, sims |-> sims,
       metadata |-> [j \in 1..Len(sims) |-> RemoteIds[j]],
       pc |-> "ready", k |-> 0, results |-> <<>>] :
          sims \in { s \in SeqsUpTo(ScoreSet, MaxVectors) :
                        /\ Len(s) >= 1
                        /\ \A a, b \in 1..Len(s) : s[a] = s[b] => a = b } }

InitVector ==
    /\ embeddings_file = FileMissing
    /\ lax = FALSE
    /\ index_id = None
    /\ pc = "off"
    /\ request = NoRequest
    /\ remote_called = FALSE
    /\ data_items = <<>>
    /\ i = 0
    /\ search_results = <<>>
    /\ response = NoHttp
    /\ entries = <<>>
    /\ flat_pc = "off"
    /\ flat_out = NoOut
    /\ GenOff
    /\ vector_db \in VectorDbs \cup {[NoVectorDb EXCEPT !.pc = "ready"]}

NextVector ==
    \/ \E k \in 1..MaxK : VectorSearch(k)
    \/ \E k \in 1..MaxK : VectorSearchNoIndex(k)

SpecVector == InitVector /\ [][NextVector]_vars

(* ------------------------------------------------------------------ *)
(* Properties                                                         *)
(* ------------------------------------------------------------------ *)
\* the raw hits of a response in response order: the clips of each grouped
\* entry, each flat entry itself
RECURSIVE RawHits(_)
RawHits(es) ==
    IF es = <<>> THEN <<>>
    ELSE (IF Len(Head(es).clips) > 0 THEN Head(es).clips ELSE <<Head(es)>>)
         \o RawHits(Tail(es))

\* the first m elements of a sequence, m >= 0
FirstOf(seq, m) == SubSeq(seq, 1, IF m < Len(seq) THEN m ELSE Len(seq))

Labels == {"high", "medium", "low"}

\* a raw hit every field of which has the type the result schema names,
\* with a confidence that is already a label
CleanHit(a) ==
    /\ a.video_id.k = "str"
    /\ a.confidence.k = "str" /\ a.confidence.s \in Labels
    /\ a.score.k = "num" /\ a.start.k = "num" /\ a.end.k = "num"
    /\ a.filename.k \in {"absent", "str"}
    /\ a.transcription.k \in {"absent", "none", "str"}
    /\ a.thumbnail_url.k \in {"absent", "none", "str"}

\* a raw hit with a missing or wrongly typed video id
MalformedHit(a) == a.video_id.k \in {"absent", "none"}

\* the request reached the remote service, whose response was read to its end
Answered ==
    /\ pc = "responded"
    /\ remote_called
    /\ ~request.resp.query_fails
    /\ ~request.resp.read_fails

\* the raw hits the request may return: the first max_results of the response
RequestedHits == FirstOf(RawHits(request.resp.entries), request.max_results)

RECURSIVE IsSubseq(_, _)
IsSubseq(a, b) ==
    IF a = <<>> THEN TRUE
    ELSE IF b = <<>> THEN FALSE
    ELSE IF Head(a) = Head(b) THEN IsSubseq(Tail(a), Tail(b))
    ELSE IsSubseq(a, Tail(b))

VideoIds(seq) == [j \in 1..Len(seq) |-> seq[j].video_id]

\* C1: a successful search response that holds results holds at most
\* max_results of them, for every integer max_results the handler accepts
\* and every remote response
C1_ResultsWithinMax ==
    (pc = "responded" /\ response.status = 200 /\ response.results # <<>>)
        => Len(response.results) <= request.max_results

\* C2: when every hit among the first max_results raw hits is either clean or
\* malformed, the request succeeds and returns exactly the clean ones, those
\* after a malformed hit included
C2_PerHitIsolation ==
    (/\ Answered
     /\ request.max_results >= 0
     /\ \A j \in 1..Len(RequestedHits) :
            CleanHit(RequestedHits[j]) \/ MalformedHit(RequestedHits[j]))
        => /\ response.status = 200
           /\ VideoIds(response.results)
                = VideoIds(SelectSeq(RequestedHits, CleanHit))

\* the label the thresholds give a numeric confidence (hundredths)
ThresholdLabel(n) ==
    IF n > 70 THEN "high" ELSE IF n > 40 THEN "medium" ELSE "low"

\* C3: a raw hit with a numeric confidence (the other requested hits being
\* clean) is present in the response with the label the thresholds give
C3_NumericConfidenceClassified ==
    (Answered /\ request.max_results >= 0)
        => \A j \in 1..Len(RequestedHits) :
              (/\ RequestedHits[j].confidence.k = "num"
               /\ RequestedHits[j].video_id.k = "str"
               /\ \A k \in 1..Len(RequestedHits) :
                      k # j => CleanHit(RequestedHits[k]))
                 => /\ response.status = 200
                    /\ j <= Len(response.results)
                    /\ response.results[j].confidence
                         = S(ThresholdLabel(RequestedHits[j].confidence.n))

\* C4: a result whose raw hit has a confidence that is already one of the
\* strings high, medium, low carries that string unchanged
C4_LabelPassedThrough ==
    (pc = "responded" /\ response.status = 200)
        => \A j \in 1..Len(response.results) :
              LET raw == RawHits(request.resp.entries)[j]
              IN  /\ response.results[j].video_id = Get(raw.video_id, S(""))
                  /\ (raw.confidence.k = "str" /\ raw.confidence.s \in Labels)
                        => response.results[j].confidence = raw.confidence

C4_Witness ==
    /\ pc = "responded" /\ response.status = 200
    /\ Len(response.results) = 2
    /\ response.results[1].confidence = S("medium")
    /\ response.results[2].confidence = S("high")

\* C5: a result whose raw hit has a confidence that is not a number carries a
\* label in {high, medium, low, unknown}, and the label unknown when the raw
\* confidence is absent or an unrecognised string
C5_LabelInSet ==
    (pc = "responded" /\ response.status = 200)
        => \A j \in 1..Len(response.results) :
              LET raw == RawHits(request.resp.entries)[j]
              IN  raw.confidence.k # "num"
                    => /\ response.results[j].confidence.k = "str"
                       /\ response.results[j].confidence.s \in Labels \cup {"unknown"}
                       /\ ~(raw.confidence.k = "str" /\ raw.confidence.s \in Labels)
                             => response.results[j].confidence = S("unknown")

\* C6: the results of a response are, in order, a subsequence of the hits the
\* client returned, which are in order a subsequence of the raw hits received
C6_OrderPreserved ==
    (pc = "responded" /\ response.status = 200)
        => /\ IsSubseq(VideoIds(response.results), VideoIds(data_items))
           /\ IsSubseq(VideoIds(data_items),
                       [j \in 1..Len(RawHits(request.resp.entries)) |->
                           Get(RawHits(request.resp.entries)[j].video_id, S(""))])

C6_Witness ==
    /\ pc = "responded" /\ response.status = 200
    /\ Len(response.results) = 2
    /\ Len(RawHits(request.resp.entries)) > 2
    /\ response.results[1].video_id # response.results[2].video_id

\* C7: the hit list a client search returns holds exactly one hit per clip of
\* every grouped entry and one per flat entry, in response order
C7_FlattenComplete ==
    flat_pc \in {"text", "image"}
        => /\ flat_out.success
           /\ Len(flat_out.data) = Len(RawHits(entries))
           /\ VideoIds(flat_out.data) = VideoIds(RawHits(entries))

\* C8: when the remote search fails, on the query or while the response is
\* read, the request ends in an error that returns no results and whose
\* rendered cause is the remote error
C8_RemoteFailureIsError ==
    (/\ pc = "responded"
     /\ remote_called
     /\ request.max_results >= 1
     /\ request.resp.query_fails \/ request.resp.read_fails)
        => /\ response.status = 500
           /\ response.results = <<>>
           /\ Len(response.detail) > 1
                 => response.detail[Len(response.detail)] = request.resp.error

\* C9: while no index id is loaded, a request is answered 400 "No index found"
\* without a remote call, and no request is being normalised
C9_NoIndexFails ==
    index_id.k # "str"
        => /\ pc # "normalizing"
           /\ ~remote_called
           /\ pc = "responded"
                 => /\ response.status = 400
                    /\ response.detail = <<"No index found. Run embedding generation first.">>
                    /\ response.results = <<>>

\* the service started without a catalog, and is asked after one was written
C9_Witness ==
    /\ pc = "responded"
    /\ index_id = None
    /\ embeddings_file.state = "ok"
    /\ response.status = 400

\* the hit has no record in the catalog file as it is now
CatalogMiss(hit, file) ==
    \/ file.state # "ok"
    \/ \A j \in 1..Len(file.videos) :
          ~(hit.video_id.k = "str" /\ hit.video_id.s = file.videos[j].video_id)

\* a step of the loop over the hits: the hit is appended or the loop ends
NormalizeStep ==
    /\ pc = "normalizing"
    /\ i < Len(PySlice(data_items, request.max_results))
    /\ i' = i + 1 \/ pc' = "responded"

\* C10: a clean hit that misses the catalog (no record with its video id, or
\* the file missing or unreadable) is appended with video_filepath "unknown"
\* and the remote filename, "unknown" when the remote gave none; the request
\* then answers 200
C10_CorrelationMiss ==
    /\ [][(/\ NormalizeStep
           /\ CleanHit(RawHits(request.resp.entries)[i + 1])
           /\ CatalogMiss(RawHits(request.resp.entries)[i + 1], embeddings_file))
            => LET raw == RawHits(request.resp.entries)[i + 1]
               IN  /\ Len(search_results') = Len(search_results) + 1
                   /\ search_results'[i + 1].video_id = raw.video_id
                   /\ search_results'[i + 1].video_filepath = S("unknown")
                   /\ search_results'[i + 1].filename
                        = (IF raw.filename.k = "absent" THEN S("unknown")
                           ELSE raw.filename)]_vars
    /\ [](Answered => response.status = 200)

\* a response with a missed hit that kept the remote filename, a missed hit
\* without one, read while the catalog file was missing or partly written
C10_Witness ==
    /\ pc = "responded" /\ response.status = 200
    /\ embeddings_file.state # "ok"
    /\ Len(response.results) = 2
    /\ response.results[1].video_filepath = S("unknown")
    /\ response.results[1].filename = S("remote.mp4")
    /\ response.results[2].video_id = S("v1")
    /\ response.results[2].video_filepath = S("unknown")
    /\ response.results[2].filename = S("unknown")

\* C11: a clean hit whose video id has a record in the catalog file is
\* appended with the filename and filepath of the first such record, whatever
\* filename the remote supplied
C11_CorrelationHit ==
    [][(/\ NormalizeStep
        /\ CleanHit(RawHits(request.resp.entries)[i + 1])
        /\ ~CatalogMiss(RawHits(request.resp.entries)[i + 1], embeddings_file))
         => LET raw == RawHits(request.resp.entries)[i + 1]
                j   == CHOOSE j \in 1..Len(embeddings_file.videos) :
                          /\ embeddings_file.videos[j].video_id = raw.video_id.s
                          /\ \A k \in 1..(j - 1) :
                                embeddings_file.videos[k].video_id # raw.video_id.s
            IN  /\ Len(search_results') = Len(search_results) + 1
                /\ search_results'[i + 1].video_id = raw.video_id
                /\ search_results'[i + 1].filename
                     = S(embeddings_file.videos[j].filename)
                /\ search_results'[i + 1].video_filepath
                     = S(embeddings_file.videos[j].filepath)]_vars

\* a returned hit for which the remote supplied another filename than the
\* catalog's
C11_Witness ==
    /\ pc = "responded" /\ response.status = 200
    /\ Len(response.results) >= 1
    /\ RawHits(request.resp.entries)[1].filename = S("remote.mp4")
    /\ response.results[1].video_id = S("v2")
    /\ response.results[1].filename = S("b.mp4")
    /\ response.results[1].video_filepath = S("data/videos/b.mp4")

\* C12: a clean hit whose transcription is None or absent is appended with
\* clip_text "", and no result gathered or returned has a clip_text that is
\* not a string
C12_ClipTextNeverNull ==
    /\ [][(/\ NormalizeStep
           /\ CleanHit(RawHits(request.resp.entries)[i + 1])
           /\ RawHits(request.resp.entries)[i + 1].transcription.k
                \in {"absent", "none"})
            => /\ Len(search_results') = Len(search_results) + 1
               /\ search_results'[i + 1].clip_text = S("")]_vars
    /\ [](/\ \A j \in 1..Len(search_results) : search_results[j].clip_text.k = "str"
          /\ \A j \in 1..Len(response.results) :
                response.results[j].clip_text.k = "str")

\* a response holding a hit whose transcription was None and one whose
\* transcription was absent
C12_Witness ==
    /\ pc = "responded" /\ response.status = 200
    /\ Len(response.results) = 2
    /\ RawHits(request.resp.entries)[1].transcription = None
    /\ RawHits(request.resp.entries)[2].transcription.k = "str"
    /\ response.results[1].clip_text = S("")
    /\ response.results[2].clip_text = S("hello")

\* C13: a result whose raw hit has no thumbnail_url (absent or None) has
\* thumbnail_url None, never the empty string (the hits up to it being clean,
\* result j is the result of raw hit j)
C13_ThumbnailStaysNull ==
    (pc = "responded" /\ response.status = 200)
        => \A j \in 1..Len(response.results) :
              (/\ \A k \in 1..j : CleanHit(RawHits(request.resp.entries)[k])
               /\ RawHits(request.resp.entries)[j].thumbnail_url.k
                    \in {"absent", "none"})
                 => response.results[j].thumbnail_url = None

\* C14: in every successful search response total_results is the number of
\* results returned
C14_TotalIsCount ==
    (pc = "responded" /\ response.status = 200)
        => response.total_results = Len(response.results)

\* a response with fewer results than were requested and than the client
\* returned
C14_Witness ==
    /\ pc = "responded" /\ response.status = 200
    /\ request.max_results = 2
    /\ Len(data_items) = 2
    /\ response.total_results = 1

\* the catalog file holds a record of the local file name with the status
FileHasRecord(name, st) ==
    /\ embeddings_file.state = "ok"
    /\ \E r \in 1..Len(embeddings_file.videos) :
          /\ embeddings_file.videos[r].filename = name
          /\ embeddings_file.videos[r].status = st

C16_BatchIsolation ==
    /\ [][(/\ gen_pc \in {"upload", "wait"}
           /\ video_status' # video_status
           /\ video_status'[video_file] = "failed")
            => IF video_file < Len(video_files)
               THEN /\ gen_pc' = "upload"
                    /\ video_file' = video_file + 1
                    /\ video_status'[video_file'] = "registered"
               ELSE gen_pc' = "save"]_vars
    /\ [](gen_pc \in {"save", "dump", "exit_ok"}
            => /\ Len(video_status) = Len(video_files)
               /\ \A j \in 1..Len(video_status) :
                     video_status[j] \in {"ready", "failed"})

\* a finished run whose first video failed and whose second is in the catalog
C16_Witness ==
    /\ gen_pc = "exit_ok"
    /\ video_status = <<"failed", "ready">>
    /\ FileHasRecord("b.mp4", "ready")

\* C17: after a run that saved the catalog, every video that failed has a
\* record with status failed in the catalog file
C17_FailedRecorded ==
    gen_pc = "exit_ok"
        => \A j \in 1..Len(video_status) :
              video_status[j] = "failed" => FileHasRecord(video_files[j], "failed")

\* C18: when the upload of a file begins, the catalog file holds the records
\* of the files of this run that became ready before it
C18_SavedAfterEachVideo ==
    gen_pc = "upload"
        => \A j \in 1..(video_file - 1) :
              video_status[j] = "ready" => FileHasRecord(video_files[j], "ready")

\* C19: client.create_index is not called while an index named IndexName
\* exists remotely, and at most one index of that name exists
C19_NoDuplicateIndex ==
    /\ gen_pc = "create" => FindIndex(indexes, 1) = 0
    /\ Cardinality({j \in 1..Len(indexes) : indexes[j].index_name = IndexName}) <= 1

\* C20: after an interruption of the wait, the catalog file holds a record
\* of the video with status processing and the task id
C20_CancelLeavesProcessing ==
    (/\ gen_pc = "cancelled"
     /\ video_file \in 1..Len(video_status)
     /\ video_status[video_file] = "processing")
        => /\ embeddings_file.state = "ok"
           /\ \E r \in 1..Len(embeddings_file.videos) :
                 /\ embeddings_file.videos[r].task_id = task_id
                 /\ embeddings_file.videos[r].status = "processing"

\* C21: a wait that ended on an error of a poll does not make the video
\* failed: the file just left behind by the loop is failed only when its
\* task ended in a status other than ready
C21_PollErrorIsTransient ==
    (/\ gen_pc \in {"upload", "save"}
     /\ video_file >= 2
     /\ wait_result.status = "error")
        => video_status[video_file - 1] # "failed"

\* C22: in the catalog file a record has a video id if and only if its
\* status is ready
C22_VideoIdIffReady ==
    embeddings_file.state = "ok"
        => \A r \in 1..Len(embeddings_file.videos) :
              (embeddings_file.videos[r].video_id # "")
                 <=> (embeddings_file.videos[r].status = "ready")

\* a saved catalog of a run in which one video became ready and one failed
C22_Witness ==
    /\ gen_pc = "exit_ok"
    /\ video_status = <<"ready", "failed">>
    /\ embeddings_file.state = "ok"
    /\ Len(embeddings_file.videos) = 1
    /\ embeddings_file.videos[1].video_id = "v1"
    /\ embeddings_file.videos[1].status = "ready"

\* C23: a reader of the catalog file (the load of the index id at startup,
\* the correlation of a hit) never finds the file truncated by a save that
\* is under way
C23_SaveIsAtomic ==
    [][((pc = "boot" /\ pc' # "boot") \/ NormalizeStep)
          => embeddings_file.state # "partial"]_vars

\* the states in which a reader can find the catalog file
FileStates == {FileMissing, FilePartial} \cup {FileOf(c) : c \in Catalogs}

\* C29: the filename and filepath of all results of a response are those
\* the correlation gives against one and the same state of the catalog file
C29_SingleSnapshot ==
    (pc = "responded" /\ response.status = 200)
        => \E f \in FileStates :
              \A j \in 1..Len(response.results) :
                 LET c == Correlate(data_items[j],
                                    Get(data_items[j].filename, S("unknown")), f)
                 IN  /\ response.results[j].filename = c.filename
                     /\ response.results[j].video_filepath = c.video_filepath

C25_DistinctErrorResponses ==
    (/\ pc = "responded" /\ remote_called /\ request.resp.query_fails
     /\ request.max_results >= 1)
        => /\ response.status # 400
           /\ \A e \in RemoteErrors \ {request.resp.error}, shown \in BOOLEAN :
                 response # HttpError(500,
                                <<"Unexpected search error: ">> \o
                                ExcStr(shown, "500", <<"Search failed: ", e>>))

\* C26: a run that found video files ends, and at its end the catalog file
\* holds for every one of them a record with status ready or failed
C26_RunCompletesAll ==
    (gen_pc = "generate" /\ video_files # <<>>)
        ~> (/\ gen_pc \in {"exit_ok", "exit_failed"}
            /\ \A j \in 1..Len(video_files) :
                  \/ FileHasRecord(video_files[j], "ready")
                  \/ FileHasRecord(video_files[j], "failed"))

\* C27: no two records of the catalog file have the same filepath
C27_UniqueFilepaths ==
    embeddings_file.state = "ok"
        => \A r, q \in 1..Len(embeddings_file.videos) :
              embeddings_file.videos[r].filepath = embeddings_file.videos[q].filepath
                 => r = q

\* the smaller of two numbers
Min(a, b) == IF a <= b THEN a ELSE b

\* C28: a search of the vector database returns min(k, stored vectors)
\* entries, no entry twice, by descending score, none of them a slot the
\* index filled for a missing neighbour
C28_SearchReturnsIndexedOnly ==
    vector_db.pc = "done"
        => LET res == vector_db.results
           IN  /\ Len(res) = Min(vector_db.k, Len(vector_db.sims))
               /\ \A a, b \in 1..Len(res) :
                     /\ res[a].metadata = res[b].metadata => a = b
                     /\ a < b => res[a].score >= res[b].score
               /\ \A a \in 1..Len(res) : res[a].score # PadScore

\* C30: search_text and search_image return the same hits for the same
\* remote entries
C30_TextEqualsImage ==
    /\ flat_pc = "text" => flat_out.data = SearchImage(FlatResponse(FALSE)).data
    /\ flat_pc = "image" => flat_out.data = SearchText(FlatResponse(FALSE)).data

====
